---- MODULE Spec2Model ----
(***************************************************************************)
(* Order lifecycle of WordMint AI: the order store (MemStorage /           *)
(* MongoStorage behind the storage facade), the order routes               *)
(* (POST /api/orders/create, POST /api/orders/:id/process), the Stripe     *)
(* routes (GET /api/checkout/:orderId, POST /api/webhook), the generation  *)
(* client (generateContent) and the notification client (sendEmail).      *)
(*                                                                         *)
(* Every route handler is an async function: it runs atomically up to its  *)
(* next await of a store or provider call, and other handlers run in       *)
(* between.  A handler is therefore a small process with a program counter *)
(* (pc) naming the call it is waiting for; the step that resolves the call *)
(* also runs the synchronous code that follows it.                         *)
(***************************************************************************)
EXTENDS Integers, Sequences, FiniteSets, TLC

\* ------------------------------------------------------------------ bounds
MaxOrders == 2      \* orders created in one run
MaxPI == 1          \* Stripe checkout sessions (payment intents) in one run
MaxHandlers == 2    \* webhook / process requests in flight at once
MaxReqs == 3        \* webhook / process / settings requests accepted in one run

\* --------------------------------------------------------------- constants
OrderStatus ==
  [PENDING |-> "pending", PROCESSING |-> "processing",
   COMPLETE |-> "complete", FAILED |-> "failed"]

EmptyPI == 0                 \* stripePaymentIntentId: "" of a new order
ForeignPI == MaxPI + 1       \* a payment intent of a session without metadata
NaN == 0                     \* parseInt of a missing or non-numeric order id
PRICE_PER_WORD_CENTS == 5
DefaultPricePerWord == 5
MinWordCount == 100
MaxWordCount == 5000

OrderIds == 1..MaxOrders
MongoIds == 1..(MaxOrders + 1)   \* the ids that the counter of MongoStorage hands out
PaymentIntents == 1..MaxPI
Handlers == 1..MaxHandlers
Templates == {"received", "in-progress", "completed", "failed", "payment-failed"}

\* the inputs the requests are drawn from
WordCounts == {99, 100}
BoundaryWordCounts == {99, 100, 5000, 5001}
Contents == {"", "text"}     \* message.content || ""
Usages == {[prompt_tokens |-> 0, completion_tokens |-> 0],
           [prompt_tokens |-> 20, completion_tokens |-> 10]}
EventTypes == {"checkout.session.completed", "payment_intent.payment_failed",
               "payment_intent.succeeded"}
PricesPerWord == {0, 7}      \* req.body.pricePerWord of PATCH /api/settings/pricing
\* how a sendEmail call ends: skipped (not production, SMTP not configured), the transport
\* throws, the transport accepts the mail
MailOutcomes == {"skipped", "error", "sent"}

\* what the completion call of the provider can fail with
ProviderErrors == {"429 rate limit reached", "401 incorrect API key sk-live"}

VARIABLES
  orders,          \* the order store: id -> order record
  orderIdCounter,  \* next order id
  settings,        \* the settings blob: section -> key -> value
  piOrder,         \* Stripe: payment intent -> order id in the session's metadata (0: none yet)
  handlers,        \* the requests in flight: slot -> handler state
  fetchQ,          \* self-addressed process requests sent by the webhook, not yet received
  emails,          \* sendEmail calls: order id -> template -> number of calls
  genCalls,        \* generateContent calls: order id -> number of calls
  history,         \* what has happened so far (not program state):
                   \*   delivered: the verified checkout.session.completed events received
                   \*   procFinished: orders for which a process request that found it has ended
                   \*   paymentFailed: orders for which payment_intent.payment_failed was
                   \*     handled while the order had had no payment event yet
                   \*   mailLog: how the sendEmail calls ended: order id -> template ->
                   \*     outcome -> number of calls
                   \*   unhandled: a promise was rejected with nothing awaiting it
                   \*   written: id -> the order as the last createOrder / updateOrder
                   \*     call on the storage object returned it
                   \*   staleRead: a getOrder call on the storage object returned
                   \*     something else than the order last written for the id
                   \*   pages: the pages of the order listing fetched so far, in order
                   \*   rejected: a create request has been answered with a validation
                   \*     error
  reqs,            \* number of webhook / process / settings requests accepted
  mongo            \* the MongoDB side of the storage facade: the connection state, the
                   \* lazily created MongoStorage object and the orders collection

vars == <<orders, orderIdCounter, settings, piOrder, handlers, fetchQ, emails,
          genCalls, history, reqs, mongo>>

\* ------------------------------------------------------------ the store
\* MemStorage.createOrder / MongoStorage.createOrder
NewOrder(order, id) ==
  [id |-> id, status |-> "pending", apiCost |-> 0, content |-> "",
   wordCount |-> order.wordCount, price |-> order.price,
   stripePaymentIntentId |-> order.stripePaymentIntentId]

\* storage.getOrder: the order or undefined
HasOrder(store, id) == id \in DOMAIN store

\* storage.getOrderByPaymentIntent: the first order holding the payment intent
OrdersByPaymentIntent(store, paymentIntentId) ==
  {id \in DOMAIN store : store[id].stripePaymentIntentId = paymentIntentId}

getOrderByPaymentIntent(store, paymentIntentId) ==
  IF OrdersByPaymentIntent(store, paymentIntentId) = {} THEN 0
  ELSE CHOOSE id \in OrdersByPaymentIntent(store, paymentIntentId) :
         \A other \in OrdersByPaymentIntent(store, paymentIntentId) : id <= other

\* storage.updateOrder: {...order, ...updateData}; undefined (no change) for an unknown id
updateOrder(store, id, updateData) ==
  IF id \notin DOMAIN store THEN store
  ELSE [store EXCEPT ![id] =
         [f \in DOMAIN store[id] |->
            IF f \in DOMAIN updateData THEN updateData[f] ELSE store[id][f]]]

\* allOrders.reduce((sum, order) => sum + order.price, 0) over the first n orders
RECURSIVE ReducePrice(_, _)
ReducePrice(store, n) ==
  IF n = 0 THEN 0 ELSE ReducePrice(store, n - 1) + store[n].price

\* a plausible slip: orders in processing are not counted as pending
getStatsPendingOnly(store) ==
  [totalOrders |-> Cardinality(DOMAIN store),
   pendingOrders |-> Cardinality({id \in DOMAIN store : store[id].status = "pending"}),
   totalRevenue |-> ReducePrice(store, Cardinality(DOMAIN store))]

\* MemStorage.getStats
getStats(store) ==
  [totalOrders |-> Cardinality(DOMAIN store),
   pendingOrders |-> Cardinality({id \in DOMAIN store :
                                   store[id].status = "pending"
                                     \/ store[id].status = "processing"}),
   totalRevenue |-> ReducePrice(store, Cardinality(DOMAIN store))]

\* ------------------------------------------------------ generation client
\* generateContent: cost = Math.round(((in / 1000) * 1 + (out / 1000) * 3) * 100)
Cost(usage) == (usage.prompt_tokens + 3 * usage.completion_tokens + 5) \div 10

GenerationResult(content, usage) == [content |-> content, cost |-> Cost(usage)]

NoResult == [content |-> "", cost |-> 0]

\* generateContent's catch: throw new Error(`Content generation failed: ${error.message}`)
GenerationError(cause) == [message |-> <<"Content generation failed: ", cause>>]

\* no error caught
NoError == [message |-> <<>>]

\* a plausible slip: the failure mail passes the caught error's message on
FailedMailDataRaw(order, error) ==
  [orderId |-> order.id, errorMessage |-> error.message]

\* the data of the "failed" mail: {orderId: order.id, topic: order.topic, errorMessage:
\* "We couldn't generate your content ..."}; the topic is the customer's own text
FailedMailData(order, error) ==
  [orderId |-> order.id,
   errorMessage |-> <<"We couldn't generate your content due to a technical issue. Please contact support.">>]

\* no "failed" mail was sent
NoMailData == [orderId |-> 0, errorMessage |-> <<>>]

\* ------------------------------------------------------------- handlers
IdleHandler ==
  [kind |-> "idle", pc |-> "idle", orderId |-> 0, type |-> "none",
   paymentIntent |-> 0, sigOK |-> TRUE, result |-> NoResult, resp |-> 0,
   saw |-> "none", afterDone |-> FALSE, writes |-> 0, mails |-> 0, gens |-> 0,
   fetches |-> 0, error |-> NoError]

\* the lifecycle state of the specification that an order record stands for
LifecycleState(o) ==
  IF o.status = OrderStatus.PENDING
  THEN (IF o.stripePaymentIntentId = EmptyPI THEN "Created" ELSE "PaymentConfirmed")
  ELSE IF o.status = OrderStatus.PROCESSING THEN "Processing"
  ELSE IF o.status = OrderStatus.COMPLETE THEN "Complete"
  ELSE "Failed"

Bump(f, o, t) == [f EXCEPT ![o][t] = @ + 1]

\* mongoose.connect has not resolved; mongoStorage is null
\*   connected: mongoose.connection.readyState === 1
\*   instance:  mongoStorage is not null
\*   counter:   this.counters.order of the MongoStorage object
\*   init:      where initDatabase of the object is ("query": awaiting
\*              OrderModel.findOne().sort('-id'); "assign": the query has read the
\*              collection and its result is on the way back)
\*   highest:   the id that the query read (0: none)
\*   db:        the orders collection: id -> order
\*   saving:    id -> number of newOrder.save() calls under way for that id
NoMongo ==
  [connected |-> FALSE, instance |-> FALSE, counter |-> 1, init |-> "none",
   highest |-> 0, db |-> <<>>, saving |-> [id \in MongoIds |-> 0]]

\* the settings that the constructor of MemStorage sets
DefaultSettings ==
  [apiKeys |-> [openaiApiKey |-> "", stripeSecretKey |-> "", stripeWebhookSecret |-> ""],
   email |-> [smtpHost |-> "", smtpPort |-> "587", smtpUser |-> "", smtpPassword |-> "",
              senderEmail |-> "noreply@contentcraft.com"],
   pricing |-> [pricePerWord |-> DefaultPricePerWord]]

Init ==
  /\ orders = <<>>
  /\ orderIdCounter = 1
  /\ settings = DefaultSettings
  /\ piOrder = [p \in PaymentIntents |-> 0]
  /\ handlers = [h \in Handlers |-> IdleHandler]
  /\ fetchQ = [o \in OrderIds |-> 0]
  /\ emails = [o \in OrderIds |-> [t \in Templates |-> 0]]
  /\ genCalls = [o \in OrderIds |-> 0]
  /\ history = [delivered |-> {}, procFinished |-> {}, paymentFailed |-> {},
                mailLog |-> [o \in OrderIds |-> [t \in Templates |->
                               [outcome \in MailOutcomes |-> 0]]],
                unhandled |-> FALSE, written |-> <<>>, staleRead |-> FALSE,
                pages |-> <<>>, rejected |-> FALSE,
                failedData |-> [o \in OrderIds |-> NoMailData]]
  /\ reqs = 0
  /\ mongo = NoMongo

\* ------------------------------------------------- POST /api/orders/create
\* a plausible slip: the word count is checked against the minimum only
safeParseNoMax(topicOK, wordCount, emailOK) ==
  topicOK /\ wordCount >= MinWordCount /\ emailOK

\* createOrderRequestSchema.safeParse(req.body).success: topic of 3 characters or more,
\* wordCount a number from 100 to 5000, customerEmail an e-mail address
safeParse(topicOK, wordCount, emailOK) ==
  topicOK /\ wordCount >= MinWordCount /\ wordCount <= MaxWordCount /\ emailOK

CreateOrder(topicOK, wordCount, emailOK) ==
  /\ orderIdCounter <= MaxOrders
  /\ IF ~safeParse(topicOK, wordCount, emailOK)
     THEN /\ UNCHANGED <<orders, orderIdCounter>>
          /\ history' = [history EXCEPT !.rejected = TRUE]
     ELSE /\ UNCHANGED history
          /\ LET pricePerWord ==
                   IF settings.pricing.pricePerWord # 0 THEN settings.pricing.pricePerWord
                   ELSE PRICE_PER_WORD_CENTS
                 price == wordCount * pricePerWord
             IN /\ orders' = orders @@
                     (orderIdCounter :> NewOrder([wordCount |-> wordCount, price |-> price,
                                                  stripePaymentIntentId |-> EmptyPI],
                                                 orderIdCounter))
                /\ orderIdCounter' = orderIdCounter + 1
  /\ UNCHANGED <<settings, piOrder, handlers, fetchQ, emails, genCalls, reqs, mongo>>

\* ------------------------------------------- PATCH /api/settings/pricing
\* MemStorage.updateSettings: this.settings[section] = {...this.settings[section], ...newSettings}
updateSettings(blob, section, newSettings) ==
  [blob EXCEPT ![section] =
     [k \in DOMAIN @ \cup DOMAIN newSettings |->
        IF k \in DOMAIN newSettings THEN newSettings[k] ELSE @[k]]]

\* a plausible slip: a pricing change reprices the orders that are still pending
UpdatePricingReprices(pricePerWord) ==
  /\ reqs < MaxReqs
  /\ reqs' = reqs + 1
  /\ settings' = updateSettings(settings, "pricing", [pricePerWord |-> pricePerWord])
  /\ orders' = [id \in DOMAIN orders |->
                  IF orders[id].status = OrderStatus.PENDING
                  THEN [orders[id] EXCEPT !.price = orders[id].wordCount * pricePerWord]
                  ELSE orders[id]]
  /\ UNCHANGED <<orderIdCounter, piOrder, handlers, fetchQ, emails, genCalls, history,
                 mongo>>

\* storage.updateSettings("pricing", {pricePerWord})
UpdatePricing(pricePerWord) ==
  /\ reqs < MaxReqs
  /\ reqs' = reqs + 1
  /\ settings' = updateSettings(settings, "pricing", [pricePerWord |-> pricePerWord])
  /\ UNCHANGED <<orders, orderIdCounter, piOrder, handlers, fetchQ, emails, genCalls,
                 history, mongo>>

\* ------------------------------------------------ GET /api/checkout/:orderId
\* stripe.checkout.sessions.create with metadata.orderId = order.id
Checkout(orderId, p) ==
  /\ HasOrder(orders, orderId)
  /\ piOrder[p] = 0
  /\ \A q \in PaymentIntents : q < p => piOrder[q] # 0
  /\ piOrder' = [piOrder EXCEPT ![p] = orderId]
  /\ UNCHANGED <<orders, orderIdCounter, settings, handlers, fetchQ, emails, genCalls,
                 history, reqs, mongo>>

\* ------------------------------------------------------------ handler steps
\* a new request takes the first slot that holds no request in flight
Free(h) ==
  /\ handlers[h].pc \in {"idle", "done"}
  /\ \A g \in Handlers : g < h => handlers[g].pc \notin {"idle", "done"}

\* res.status(status).json(...): the handler ends and its locals are dropped
Finish(rec, status) ==
  [rec EXCEPT !.pc = "done", !.resp = status, !.result = NoResult, !.error = NoError]

\* metadata.orderId of the checkout session that owns a payment intent
MetadataOrderId(p) == IF p \in PaymentIntents THEN piOrder[p] ELSE NaN

\* Stripe has an object to report on: a session created by Checkout, or a foreign one
Known(p) == p = ForeignPI \/ (p \in PaymentIntents /\ piOrder[p] # 0)

\* ------------------------------------------------------- POST /api/webhook
\* a plausible slip: the payload is parsed without checking its signature
constructEventUnchecked(sigOK) == TRUE

\* stripe.webhooks.constructEvent(req.body, signature, secret): an event if the signature
\* of the payload verifies, an exception otherwise
constructEvent(sigOK) == sigOK

\* the signature check, then the switch on event.type up to its first await
WebhookReceive(h, type, p, sigOK) ==
  /\ Free(h)
  /\ reqs < MaxReqs
  /\ sigOK => Known(p)
  /\ reqs' = reqs + 1
  /\ LET req == [IdleHandler EXCEPT !.kind = "webhook", !.sigOK = sigOK]
         event == [req EXCEPT !.type = type]
         session == [event EXCEPT !.paymentIntent = p, !.orderId = MetadataOrderId(p)]
         paymentIntent == [event EXCEPT !.paymentIntent = p]
     IN IF ~constructEvent(sigOK)
        THEN /\ handlers' = [handlers EXCEPT ![h] = Finish(req, 400)]
             /\ UNCHANGED history
        ELSE /\ handlers' = [handlers EXCEPT ![h] =
                  IF type = "checkout.session.completed"
                  THEN (IF session.orderId = NaN THEN Finish(session, 400)
                        ELSE [session EXCEPT !.pc = "getOrder"])
                  ELSE IF type = "payment_intent.payment_failed"
                       THEN [paymentIntent EXCEPT !.pc = "getOrderByPaymentIntent"]
                  ELSE Finish(event, 200)]
             /\ history' =
                  IF type = "checkout.session.completed"
                  THEN [history EXCEPT !.delivered =
                          @ \cup {[orderId |-> MetadataOrderId(p), paymentIntent |-> p]}]
                  ELSE history
  /\ UNCHANGED <<orders, orderIdCounter, settings, piOrder, fetchQ, emails, genCalls,
                 mongo>>

\* checkout.session.completed: const order = await storage.getOrder(orderId)
WebhookGetOrder(h) ==
  /\ handlers[h].kind = "webhook"
  /\ handlers[h].pc = "getOrder"
  /\ LET req == handlers[h]
     IN handlers' = [handlers EXCEPT ![h] =
          IF ~HasOrder(orders, req.orderId) THEN Finish(req, 404)
          ELSE [req EXCEPT !.pc = "updateOrder",
                           !.saw = LifecycleState(orders[req.orderId])]]
  /\ UNCHANGED <<orders, orderIdCounter, settings, piOrder, fetchQ, emails, genCalls,
                 history, reqs, mongo>>

\* checkout.session.completed: await storage.updateOrder(orderId, {stripePaymentIntentId}),
\* sendEmail("received"), fetch(.../process), res.json({received: true})
WebhookUpdateOrder(h) ==
  /\ handlers[h].kind = "webhook"
  /\ handlers[h].pc = "updateOrder"
  /\ LET req == handlers[h]
     IN /\ orders' = updateOrder(orders, req.orderId,
                                 [stripePaymentIntentId |-> req.paymentIntent])
        /\ emails' = Bump(emails, req.orderId, "received")
        /\ fetchQ' = [fetchQ EXCEPT ![req.orderId] = @ + 1]
        /\ handlers' = [handlers EXCEPT ![h] =
             Finish([req EXCEPT !.writes = @ + 1, !.mails = @ + 1, !.fetches = @ + 1], 200)]
  /\ UNCHANGED <<orderIdCounter, settings, piOrder, genCalls, history, reqs, mongo>>

\* payment_intent.payment_failed: const order = await storage.getOrderByPaymentIntent(id)
\* (saw: the state, at this moment, of the order whose checkout session owns the payment
\* intent; the handler itself sees only the order that the lookup returns)
WebhookGetOrderByPaymentIntent(h) ==
  /\ handlers[h].kind = "webhook"
  /\ handlers[h].pc = "getOrderByPaymentIntent"
  /\ LET req == handlers[h]
         id == getOrderByPaymentIntent(orders, req.paymentIntent)
         owner == MetadataOrderId(req.paymentIntent)
         seen == IF HasOrder(orders, owner) THEN LifecycleState(orders[owner]) ELSE "none"
     IN /\ handlers' = [handlers EXCEPT ![h] =
             IF id = 0 THEN Finish([req EXCEPT !.saw = seen], 200)
             ELSE [req EXCEPT !.pc = "updateFailed", !.orderId = id, !.saw = seen]]
        /\ history' = IF seen = "Created"
                      THEN [history EXCEPT !.paymentFailed = @ \cup {owner}]
                      ELSE history
  /\ UNCHANGED <<orders, orderIdCounter, settings, piOrder, fetchQ, emails, genCalls, reqs,
                 mongo>>

\* payment_intent.payment_failed: await storage.updateOrder(order.id, {status: FAILED}),
\* sendEmail("payment-failed"), res.json({received: true})
WebhookUpdateFailed(h) ==
  /\ handlers[h].kind = "webhook"
  /\ handlers[h].pc = "updateFailed"
  /\ LET req == handlers[h]
     IN /\ orders' = updateOrder(orders, req.orderId, [status |-> OrderStatus.FAILED])
        /\ emails' = Bump(emails, req.orderId, "payment-failed")
        /\ handlers' = [handlers EXCEPT ![h] =
             Finish([req EXCEPT !.writes = @ + 1, !.mails = @ + 1], 200)]
  /\ UNCHANGED <<orderIdCounter, settings, piOrder, fetchQ, genCalls, history, reqs,
                 mongo>>

\* ------------------------------------------- POST /api/orders/:id/process
\* the handler up to its first await: parseInt, isNaN
StartProcess(h, id) ==
  /\ Free(h)
  /\ reqs < MaxReqs
  /\ handlers' = [handlers EXCEPT ![h] =
       LET req == [IdleHandler EXCEPT !.kind = "process", !.orderId = id,
                                      !.afterDone = (id \in history.procFinished)]
       IN IF id = NaN THEN Finish(req, 400) ELSE [req EXCEPT !.pc = "getOrder"]]
  /\ reqs' = reqs + 1

\* a request from outside: the route has no capability gate
ProcessRequest(h, id) ==
  /\ StartProcess(h, id)
  /\ UNCHANGED <<orders, orderIdCounter, settings, piOrder, fetchQ, emails, genCalls,
                 history, mongo>>

\* the request the webhook sent with fetch arrives
FetchDeliver(h, id) ==
  /\ fetchQ[id] > 0
  /\ fetchQ' = [fetchQ EXCEPT ![id] = @ - 1]
  /\ StartProcess(h, id)
  /\ UNCHANGED <<orders, orderIdCounter, settings, piOrder, emails, genCalls,
                 history, mongo>>

\* the request the webhook sent with fetch is lost: .catch(error => console.error(...))
FetchFail(id) ==
  /\ fetchQ[id] > 0
  /\ fetchQ' = [fetchQ EXCEPT ![id] = @ - 1]
  /\ UNCHANGED <<orders, orderIdCounter, settings, piOrder, handlers, emails, genCalls,
                 history, reqs, mongo>>

\* a plausible slip: the guard never rejects
NeverAdvanced(order) == FALSE

\* if (order.status !== OrderStatus.PENDING) return res.status(400)...
AlreadyAdvanced(order) == order.status # OrderStatus.PENDING

\* const order = await storage.getOrder(orderId); 404; the status guard
ProcessGetOrder(h) ==
  /\ handlers[h].kind = "process"
  /\ handlers[h].pc = "getOrder"
  /\ LET req == handlers[h]
         found == HasOrder(orders, req.orderId)
     IN /\ handlers' = [handlers EXCEPT ![h] =
             IF ~found THEN Finish(req, 404)
             ELSE IF AlreadyAdvanced(orders[req.orderId])
                  THEN Finish([req EXCEPT !.saw = LifecycleState(orders[req.orderId])], 400)
             ELSE [req EXCEPT !.pc = "updateProcessing",
                              !.saw = LifecycleState(orders[req.orderId])]]
        /\ history' =
             IF found /\ AlreadyAdvanced(orders[req.orderId])
             THEN [history EXCEPT !.procFinished = @ \cup {req.orderId}] ELSE history
  /\ UNCHANGED <<orders, orderIdCounter, settings, piOrder, fetchQ, emails, genCalls, reqs,
                 mongo>>

\* await storage.updateOrder(orderId, {status: PROCESSING}), sendEmail("in-progress"),
\* the call of generateContent
ProcessUpdateProcessing(h) ==
  /\ handlers[h].kind = "process"
  /\ handlers[h].pc = "updateProcessing"
  /\ LET req == handlers[h]
     IN /\ orders' = updateOrder(orders, req.orderId, [status |-> OrderStatus.PROCESSING])
        /\ emails' = Bump(emails, req.orderId, "in-progress")
        /\ genCalls' = [genCalls EXCEPT ![req.orderId] = @ + 1]
        /\ handlers' = [handlers EXCEPT ![h] =
             [req EXCEPT !.pc = "generateContent", !.writes = @ + 1, !.mails = @ + 1,
                         !.gens = @ + 1]]
  /\ UNCHANGED <<orderIdCounter, settings, piOrder, fetchQ, history, reqs, mongo>>

\* generateContent returns {content, cost}
ProcessGenerated(h, content, usage) ==
  /\ handlers[h].kind = "process"
  /\ handlers[h].pc = "generateContent"
  /\ handlers' = [handlers EXCEPT ![h] =
       [@ EXCEPT !.pc = "updateComplete", !.result = GenerationResult(content, usage)]]
  /\ UNCHANGED <<orders, orderIdCounter, settings, piOrder, fetchQ, emails, genCalls,
                 history, reqs, mongo>>

\* generateContent throws; the catch block of the route binds the error
ProcessGenerationFailed(h, cause) ==
  /\ handlers[h].kind = "process"
  /\ handlers[h].pc = "generateContent"
  /\ handlers' = [handlers EXCEPT ![h] =
       [@ EXCEPT !.pc = "updateFailed", !.error = GenerationError(cause)]]
  /\ UNCHANGED <<orders, orderIdCounter, settings, piOrder, fetchQ, emails, genCalls,
                 history, reqs, mongo>>

\* a plausible slip: the completing update stores the text but not its cost
CompleteUpdateNoCost(result) ==
  [status |-> OrderStatus.COMPLETE, content |-> result.content]

\* the update data of the completing write: {status: COMPLETE, content: result.content,
\* apiCost: result.cost}
CompleteUpdate(result) ==
  [status |-> OrderStatus.COMPLETE, content |-> result.content, apiCost |-> result.cost]

\* a plausible slip: the catch block reports the failure but leaves the status alone
FailedUpdateKeepsStatus == [status |-> OrderStatus.PROCESSING]

\* the update data of the catch block: {status: FAILED}
FailedUpdate == [status |-> OrderStatus.FAILED]

\* await storage.updateOrder(orderId, {status: COMPLETE, content, apiCost}),
\* sendEmail("completed"), res.json(...)
ProcessUpdateComplete(h) ==
  /\ handlers[h].kind = "process"
  /\ handlers[h].pc = "updateComplete"
  /\ LET req == handlers[h]
     IN /\ orders' = updateOrder(orders, req.orderId, CompleteUpdate(req.result))
        /\ emails' = Bump(emails, req.orderId, "completed")
        /\ handlers' = [handlers EXCEPT ![h] =
             Finish([req EXCEPT !.writes = @ + 1, !.mails = @ + 1], 200)]
        /\ history' = [history EXCEPT !.procFinished = @ \cup {req.orderId}]
  /\ UNCHANGED <<orderIdCounter, settings, piOrder, fetchQ, genCalls, reqs, mongo>>

\* catch: await storage.updateOrder(orderId, {status: FAILED}), sendEmail("failed"),
\* res.status(500)
ProcessUpdateFailed(h) ==
  /\ handlers[h].kind = "process"
  /\ handlers[h].pc = "updateFailed"
  /\ LET req == handlers[h]
     IN /\ orders' = updateOrder(orders, req.orderId, FailedUpdate)
        /\ emails' = Bump(emails, req.orderId, "failed")
        /\ handlers' = [handlers EXCEPT ![h] =
             Finish([req EXCEPT !.writes = @ + 1, !.mails = @ + 1], 500)]
        /\ history' = [history EXCEPT
             !.procFinished = @ \cup {req.orderId},
             !.failedData[req.orderId] = FailedMailData(orders[req.orderId], req.error)]
  /\ UNCHANGED <<orderIdCounter, settings, piOrder, fetchQ, genCalls, reqs, mongo>>

\* ---------------------------------------------------------- specification
Next ==
  \/ \E topicOK \in BOOLEAN, wordCount \in WordCounts, emailOK \in BOOLEAN :
       CreateOrder(topicOK, wordCount, emailOK)
  \/ \E pricePerWord \in PricesPerWord : UpdatePricing(pricePerWord)
  \/ \E orderId \in OrderIds, p \in PaymentIntents : Checkout(orderId, p)
  \/ \E h \in Handlers, type \in EventTypes, p \in PaymentIntents \cup {ForeignPI},
        sigOK \in BOOLEAN : WebhookReceive(h, type, p, sigOK)
  \/ \E h \in Handlers : WebhookGetOrder(h)
  \/ \E h \in Handlers : WebhookUpdateOrder(h)
  \/ \E h \in Handlers : WebhookGetOrderByPaymentIntent(h)
  \/ \E h \in Handlers : WebhookUpdateFailed(h)
  \/ \E h \in Handlers, id \in {NaN} \cup OrderIds : ProcessRequest(h, id)
  \/ \E h \in Handlers, id \in OrderIds : FetchDeliver(h, id)
  \/ \E id \in OrderIds : FetchFail(id)
  \/ \E h \in Handlers : ProcessGetOrder(h)
  \/ \E h \in Handlers : ProcessUpdateProcessing(h)
  \/ \E h \in Handlers, content \in Contents, usage \in Usages :
       ProcessGenerated(h, content, usage)
  \/ \E h \in Handlers, cause \in ProviderErrors : ProcessGenerationFailed(h, cause)
  \/ \E h \in Handlers : ProcessUpdateComplete(h)
  \/ \E h \in Handlers : ProcessUpdateFailed(h)

Spec == Init /\ [][Next]_vars

TypeOK ==
  /\ orderIdCounter \in 1..(MaxOrders + 1)
  /\ DOMAIN orders = 1..(orderIdCounter - 1)
  /\ reqs \in 0..MaxReqs

\* ------------------------------------------- a store whose updates can fail
\* MongoStorage.updateOrder catches the driver's error, logs it and returns undefined; the
\* process route does not look at the value returned, so the handler goes on as after a
\* successful update: sendEmail("completed"), res.json(...)
ProcessUpdateCompleteStoreError(h) ==
  /\ handlers[h].kind = "process"
  /\ handlers[h].pc = "updateComplete"
  /\ LET req == handlers[h]
     IN /\ emails' = Bump(emails, req.orderId, "completed")
        /\ handlers' = [handlers EXCEPT ![h] = Finish([req EXCEPT !.mails = @ + 1], 200)]
        /\ history' = [history EXCEPT !.procFinished = @ \cup {req.orderId}]
  /\ UNCHANGED <<orders, orderIdCounter, settings, piOrder, fetchQ, genCalls, reqs,
                 mongo>>

\* the same in the catch block: the update to FAILED is lost, then sendEmail("failed"),
\* res.status(500)
ProcessUpdateFailedStoreError(h) ==
  /\ handlers[h].kind = "process"
  /\ handlers[h].pc = "updateFailed"
  /\ LET req == handlers[h]
     IN /\ emails' = Bump(emails, req.orderId, "failed")
        /\ handlers' = [handlers EXCEPT ![h] = Finish([req EXCEPT !.mails = @ + 1], 500)]
        /\ history' = [history EXCEPT
             !.procFinished = @ \cup {req.orderId},
             !.failedData[req.orderId] = FailedMailData(orders[req.orderId], req.error)]
  /\ UNCHANGED <<orders, orderIdCounter, settings, piOrder, fetchQ, genCalls, reqs,
                 mongo>>

NextStoreError ==
  \/ Next
  \/ \E h \in Handlers : ProcessUpdateCompleteStoreError(h)
  \/ \E h \in Handlers : ProcessUpdateFailedStoreError(h)

SpecStoreError == Init /\ [][NextStoreError]_vars

\* ----------------------------------- every verified checkout.session.completed
\* The handler takes the order id from session.metadata.orderId and the payment reference
\* from session.payment_intent; a verified event can carry any pair of them (a second
\* checkout session of the same order, a session of another shop on the same account, an
\* order id that was issued again after a restart of the in-memory store).
WebhookReceiveAny(h, orderId, p) ==
  /\ Free(h)
  /\ reqs < MaxReqs
  /\ reqs' = reqs + 1
  /\ constructEvent(TRUE)
  /\ LET req == [IdleHandler EXCEPT !.kind = "webhook", !.sigOK = TRUE]
         event == [req EXCEPT !.type = "checkout.session.completed"]
         session == [event EXCEPT !.paymentIntent = p, !.orderId = orderId]
     IN handlers' = [handlers EXCEPT ![h] =
          IF session.orderId = NaN THEN Finish(session, 400)
          ELSE [session EXCEPT !.pc = "getOrder"]]
  /\ history' = [history EXCEPT !.delivered =
                   @ \cup {[orderId |-> orderId, paymentIntent |-> p]}]
  /\ UNCHANGED <<orders, orderIdCounter, settings, piOrder, fetchQ, emails, genCalls,
                 mongo>>

\* order creation and the handling of checkout.session.completed events, nothing else
NextAnyEvent ==
  \/ \E topicOK \in BOOLEAN, wordCount \in WordCounts, emailOK \in BOOLEAN :
       CreateOrder(topicOK, wordCount, emailOK)
  \/ \E h \in Handlers, orderId \in {NaN} \cup OrderIds,
        p \in PaymentIntents \cup {ForeignPI} : WebhookReceiveAny(h, orderId, p)
  \/ \E h \in Handlers : WebhookGetOrder(h)
  \/ \E h \in Handlers : WebhookUpdateOrder(h)

SpecAnyEvent == Init /\ [][NextAnyEvent]_vars

\* ------------------------------------------------ the notification client
\* a plausible slip: the catch block of sendEmail throws the transport error again
sendEmailRethrows(outcome) ==
  IF outcome = "skipped" THEN "resolved"
  ELSE IF outcome = "error" THEN "rejected"
  ELSE "resolved"

\* sendEmail: how the promise it returns settles. It returns early when the mail is
\* skipped; otherwise the transport is built and used inside try, and the catch block
\* only logs.
sendEmail(outcome) ==
  IF outcome = "skipped" THEN "resolved"
  ELSE IF outcome = "error" THEN "resolved"
  ELSE "resolved"

\* sendEmail calls of (order, template) that have settled
Settled(o, t) ==
  history.mailLog[o][t]["skipped"] + history.mailLog[o][t]["error"]
    + history.mailLog[o][t]["sent"]

\* One sendEmail call settles. No handler awaits the call, so the promise settles after
\* the handler has gone on; a rejection would reach nobody. Whether mails are skipped is
\* fixed by NODE_ENV and the SMTP configuration, so it is the same for the whole run.
MailSettle(o, t, outcome) ==
  /\ Settled(o, t) < emails[o][t]
  /\ \A o2 \in OrderIds, t2 \in Templates :
       IF outcome = "skipped"
       THEN history.mailLog[o2][t2]["error"] = 0 /\ history.mailLog[o2][t2]["sent"] = 0
       ELSE history.mailLog[o2][t2]["skipped"] = 0
  /\ history' = [history EXCEPT
                   !.mailLog[o][t][outcome] = @ + 1,
                   !.unhandled = @ \/ sendEmail(outcome) = "rejected"]
  /\ UNCHANGED <<orders, orderIdCounter, settings, piOrder, handlers, fetchQ, emails,
                 genCalls, reqs, mongo>>

\* payment events, the dispatched process requests and the mails they send
NextMail ==
  \/ \E topicOK \in BOOLEAN, wordCount \in WordCounts, emailOK \in BOOLEAN :
       CreateOrder(topicOK, wordCount, emailOK)
  \/ \E orderId \in OrderIds, p \in PaymentIntents : Checkout(orderId, p)
  \/ \E h \in Handlers, type \in EventTypes, p \in PaymentIntents \cup {ForeignPI},
        sigOK \in BOOLEAN : WebhookReceive(h, type, p, sigOK)
  \/ \E h \in Handlers : WebhookGetOrder(h)
  \/ \E h \in Handlers : WebhookUpdateOrder(h)
  \/ \E h \in Handlers : WebhookGetOrderByPaymentIntent(h)
  \/ \E h \in Handlers : WebhookUpdateFailed(h)
  \/ \E h \in Handlers, id \in OrderIds : FetchDeliver(h, id)
  \/ \E h \in Handlers : ProcessGetOrder(h)
  \/ \E h \in Handlers : ProcessUpdateProcessing(h)
  \/ \E h \in Handlers, content \in Contents, usage \in Usages :
       ProcessGenerated(h, content, usage)
  \/ \E h \in Handlers, cause \in ProviderErrors : ProcessGenerationFailed(h, cause)
  \/ \E h \in Handlers : ProcessUpdateComplete(h)
  \/ \E h \in Handlers : ProcessUpdateFailed(h)
  \/ \E o \in OrderIds, t \in Templates, outcome \in MailOutcomes :
       MailSettle(o, t, outcome)

SpecMail == Init /\ [][NextMail]_vars

\* ------------------------------------------------------ the storage facade
\* the InsertOrder that the calls of storage.createOrder pass
InsertOrders == {[wordCount |-> 100, price |-> 500, stripePaymentIntentId |-> EmptyPI]}

\* the UpdateOrder that the calls of storage.updateOrder pass
UpdateOrders == {[status |-> OrderStatus.PROCESSING]}

\* what getOrder returns for an id that the store does not hold
Undefined == [id |-> 0]

isMongoConnected(m) == m.connected

\* getStorage(): the MongoDB side after the call. While connected, a MongoStorage object
\* is created on first use: its constructor sets the counter to 1 and starts
\* initDatabase. While not connected, the object is dropped and memStorage is used.
getStorage(m) ==
  IF isMongoConnected(m)
  THEN (IF ~m.instance
        THEN [m EXCEPT !.instance = TRUE, !.counter = 1, !.init = "query", !.highest = 0]
        ELSE m)
  ELSE (IF m.instance
        THEN [m EXCEPT !.instance = FALSE, !.counter = 1, !.init = "none", !.highest = 0]
        ELSE m)

\* storage.getOrder(id) = getStorage().getOrder(id), as a value
storageGetOrder(m, id) ==
  IF isMongoConnected(m)
  THEN (IF id \in DOMAIN m.db THEN m.db[id] ELSE Undefined)
  ELSE (IF id \in DOMAIN orders THEN orders[id] ELSE Undefined)

\* number of newOrder.save() calls under way
Saving(m) == Cardinality({<<id, k>> \in MongoIds \X (1..MaxHandlers) : k <= m.saving[id]})

\* mongoose.connect(...) resolves, or the driver reconnects
Connect ==
  /\ ~mongo.connected
  /\ mongo' = [mongo EXCEPT !.connected = TRUE]
  /\ UNCHANGED <<orders, orderIdCounter, settings, piOrder, handlers, fetchQ, emails,
                 genCalls, history, reqs>>

\* the connection is lost
Disconnect ==
  /\ mongo.connected
  /\ mongo' = [mongo EXCEPT !.connected = FALSE]
  /\ UNCHANGED <<orders, orderIdCounter, settings, piOrder, handlers, fetchQ, emails,
                 genCalls, history, reqs>>

\* storage.createOrder(order). MemStorage: the id is taken and the order is stored in one
\* step. MongoStorage: getNextSequence hands out counters.order++ and newOrder.save() is
\* awaited.
StorageCreateOrder(order) ==
  LET m == getStorage(mongo)
  IN IF isMongoConnected(m)
     THEN /\ m.counter \in MongoIds
          /\ Saving(m) < MaxHandlers
          /\ mongo' = [m EXCEPT !.counter = @ + 1, !.saving[m.counter] = @ + 1]
          /\ UNCHANGED <<orders, orderIdCounter, settings, piOrder, handlers, fetchQ,
                         emails, genCalls, history, reqs>>
     ELSE /\ orderIdCounter <= MaxOrders
          /\ orders' = orders @@ (orderIdCounter :> NewOrder(order, orderIdCounter))
          /\ orderIdCounter' = orderIdCounter + 1
          /\ history' = [history EXCEPT !.written =
                           (orderIdCounter :> NewOrder(order, orderIdCounter)) @@ @]
          /\ mongo' = m
          /\ UNCHANGED <<settings, piOrder, handlers, fetchQ, emails, genCalls, reqs>>

\* await newOrder.save() of MongoStorage.createOrder: the document is inserted, or the
\* unique index on id rejects it and createOrder throws
MongoSave(id, order) ==
  /\ mongo.connected
  /\ mongo.saving[id] > 0
  /\ IF id \in DOMAIN mongo.db
     THEN /\ mongo' = [mongo EXCEPT !.saving[id] = @ - 1]
          /\ UNCHANGED history
     ELSE /\ mongo' = [mongo EXCEPT !.saving[id] = @ - 1,
                                    !.db = @ @@ (id :> NewOrder(order, id))]
          /\ history' = [history EXCEPT !.written = (id :> NewOrder(order, id)) @@ @]
  /\ UNCHANGED <<orders, orderIdCounter, settings, piOrder, handlers, fetchQ, emails,
                 genCalls, reqs>>

\* the highest id of a collection (0: the collection is empty)
HighestId(db) ==
  IF DOMAIN db = {} THEN 0
  ELSE CHOOSE id \in DOMAIN db : \A other \in DOMAIN db : id >= other

\* initDatabase: OrderModel.findOne().sort('-id') reads the collection
MongoInitQuery ==
  /\ mongo.connected
  /\ mongo.instance
  /\ mongo.init = "query"
  /\ mongo' = [mongo EXCEPT !.init = "assign", !.highest = HighestId(mongo.db)]
  /\ UNCHANGED <<orders, orderIdCounter, settings, piOrder, handlers, fetchQ, emails,
                 genCalls, history, reqs>>

\* initDatabase: if (highestOrderId) this.counters.order = highestOrderId.id + 1
MongoInitAssign ==
  /\ mongo.instance
  /\ mongo.init = "assign"
  /\ mongo' = [mongo EXCEPT !.init = "done", !.highest = 0,
                            !.counter = IF mongo.highest # 0 THEN mongo.highest + 1 ELSE @]
  /\ UNCHANGED <<orders, orderIdCounter, settings, piOrder, handlers, fetchQ, emails,
                 genCalls, history, reqs>>

\* storage.updateOrder(id, updateData)
StorageUpdateOrder(id, updateData) ==
  LET m == getStorage(mongo)
  IN IF isMongoConnected(m)
     THEN /\ mongo' = [m EXCEPT !.db = updateOrder(m.db, id, updateData)]
          /\ history' = IF id \in DOMAIN m.db
                        THEN [history EXCEPT !.written =
                                (id :> updateOrder(m.db, id, updateData)[id]) @@ @]
                        ELSE history
          /\ UNCHANGED <<orders, orderIdCounter, settings, piOrder, handlers, fetchQ,
                         emails, genCalls, reqs>>
     ELSE /\ orders' = updateOrder(orders, id, updateData)
          /\ history' = IF id \in DOMAIN orders
                        THEN [history EXCEPT !.written =
                                (id :> updateOrder(orders, id, updateData)[id]) @@ @]
                        ELSE history
          /\ mongo' = m
          /\ UNCHANGED <<orderIdCounter, settings, piOrder, handlers, fetchQ, emails,
                         genCalls, reqs>>

\* storage.getOrder(id) for an id that a createOrder or updateOrder call has returned
StorageGetOrder(id) ==
  /\ id \in DOMAIN history.written
  /\ mongo' = getStorage(mongo)
  /\ history' = [history EXCEPT !.staleRead =
                   @ \/ storageGetOrder(mongo, id) # history.written[id]]
  /\ UNCHANGED <<orders, orderIdCounter, settings, piOrder, handlers, fetchQ, emails,
                 genCalls, reqs>>

\* the calls on the exported storage object while the connection comes and goes
NextStorage ==
  \/ Connect
  \/ Disconnect
  \/ \E order \in InsertOrders : StorageCreateOrder(order)
  \/ \E id \in MongoIds, order \in InsertOrders : MongoSave(id, order)
  \/ MongoInitQuery
  \/ MongoInitAssign
  \/ \E id \in MongoIds, updateData \in UpdateOrders : StorageUpdateOrder(id, updateData)
  \/ \E id \in MongoIds : StorageGetOrder(id)

SpecStorage == Init /\ [][NextStorage]_vars

\* ------------------------------------------------------- GET /api/orders
Limits == {1, 2}             \* req.query.limit
Pages == {1, 2}              \* req.query.page

\* createdAt of an order: createOrder stamps the order with the current time when it
\* takes the id, so creation times grow with the ids (one order per tick of the clock)
CreatedAt(o) == o.id

\* filteredOrders.sort((a, b) => b.createdAt - a.createdAt): the ids, newest first
SortNewestFirst(store) ==
  CHOOSE seq \in [1..Cardinality(DOMAIN store) -> DOMAIN store] :
    /\ \A i, j \in DOMAIN seq : i # j => seq[i] # seq[j]
    /\ \A i, j \in DOMAIN seq :
         i < j => CreatedAt(store[seq[i]]) >= CreatedAt(store[seq[j]])

\* Array.prototype.slice(startIndex, endIndex), indices from 0
Slice(seq, startIndex, endIndex) ==
  SubSeq(seq, startIndex + 1, IF endIndex < Len(seq) THEN endIndex ELSE Len(seq))

\* getAllOrders({page, limit}) without filters: sort, then
\* slice((page - 1) * limit, (page - 1) * limit + limit); the ids of the page
getAllOrders(store, page, limit) ==
  Slice(SortNewestFirst(store), (page - 1) * limit, (page - 1) * limit + limit)

\* the admin fetches page 1 of the listing and later page 2 with the same limit
GetAllOrders(page, limit) ==
  /\ page = Len(history.pages) + 1
  /\ page > 1 => limit = history.pages[1].limit
  /\ history' = [history EXCEPT !.pages =
                   Append(@, [limit |-> limit, existing |-> DOMAIN orders,
                              orders |-> getAllOrders(orders, page, limit)])]
  /\ UNCHANGED <<orders, orderIdCounter, settings, piOrder, handlers, fetchQ, emails,
                 genCalls, reqs, mongo>>

\* orders are created and repriced while the listing is read page by page
NextListing ==
  \/ \E topicOK \in BOOLEAN, wordCount \in WordCounts, emailOK \in BOOLEAN :
       CreateOrder(topicOK, wordCount, emailOK)
  \/ \E pricePerWord \in PricesPerWord : UpdatePricing(pricePerWord)
  \/ \E page \in Pages, limit \in Limits : GetAllOrders(page, limit)

SpecListing == Init /\ [][NextListing]_vars

\* ------------------------------------------------------------ the settings
ApiKeyNames == {"openaiApiKey", "stripeSecretKey", "stripeWebhookSecret"}
EmailNames == {"smtpHost", "smtpPort", "smtpUser", "smtpPassword", "senderEmail"}

\* req.body of a settings request: any of the keys of the section, each with a new value
Bodies(names) == UNION {[supplied -> {"new"}] : supplied \in SUBSET names}

\* const {key, ...} = req.body; {key, ...}: every key of the section, undefined for a key
\* that the body does not have
Destructure(body, names) ==
  [k \in names |-> IF k \in DOMAIN body THEN body[k] ELSE "undefined"]

\* the value as a condition: "" and undefined are falsy
Truthy(v) == v \notin {"", "undefined"}

\* PATCH /api/settings/api-keys: storage.updateSettings("apiKeys", {openaiApiKey,
\* stripeSecretKey, stripeWebhookSecret})
UpdateApiKeys(body) ==
  /\ settings' = updateSettings(settings, "apiKeys", Destructure(body, ApiKeyNames))
  /\ UNCHANGED <<orders, orderIdCounter, piOrder, handlers, fetchQ, emails, genCalls,
                 history, reqs, mongo>>

\* PATCH /api/settings/email: storage.updateSettings("email", {smtpHost, smtpPort,
\* smtpUser, smtpPassword, senderEmail})
UpdateEmail(body) ==
  /\ settings' = updateSettings(settings, "email", Destructure(body, EmailNames))
  /\ UNCHANGED <<orders, orderIdCounter, piOrder, handlers, fetchQ, emails, genCalls,
                 history, reqs, mongo>>

\* GET /api/settings: const settings = await storage.getSettings() is the object that
\* MemStorage holds, not a copy of it; the handler then assigns the masked values to
\* settings.apiKeys and settings.email.smtpPassword and sends the object.
GetSettings ==
  /\ settings' =
       [settings EXCEPT
          !.apiKeys = [k \in ApiKeyNames |-> IF Truthy(settings.apiKeys[k]) THEN "***" ELSE ""],
          !.email.smtpPassword = IF Truthy(@) THEN "***" ELSE @]
  /\ UNCHANGED <<orders, orderIdCounter, piOrder, handlers, fetchQ, emails, genCalls,
                 history, reqs, mongo>>

\* the settings requests of the admin
NextSettings ==
  \/ \E body \in Bodies(ApiKeyNames) : UpdateApiKeys(body)
  \/ \E body \in Bodies(EmailNames) : UpdateEmail(body)
  \/ \E pricePerWord \in PricesPerWord : UpdatePricing(pricePerWord)
  \/ GetSettings

SpecSettings == Init /\ [][NextSettings]_vars

\* ------------------------------------------- create requests at the limits
\* orders are created with word counts at both ends of the range while the price changes
NextCreate ==
  \/ \E topicOK \in BOOLEAN, wordCount \in BoundaryWordCounts, emailOK \in BOOLEAN :
       CreateOrder(topicOK, wordCount, emailOK)
  \/ \E pricePerWord \in PricesPerWord : UpdatePricing(pricePerWord)

SpecCreate == Init /\ [][NextCreate]_vars

\* ------------------------------------------ POST /api/orders/:id/process alone
\* orders are created and process requests arrive from outside; the provider can answer
\* or fail with any of its errors
NextGenerate ==
  \/ \E topicOK \in BOOLEAN, wordCount \in WordCounts, emailOK \in BOOLEAN :
       CreateOrder(topicOK, wordCount, emailOK)
  \/ \E h \in Handlers, id \in OrderIds \cup {NaN} : ProcessRequest(h, id)
  \/ \E h \in Handlers : ProcessGetOrder(h)
  \/ \E h \in Handlers : ProcessUpdateProcessing(h)
  \/ \E h \in Handlers, content \in Contents, usage \in Usages :
       ProcessGenerated(h, content, usage)
  \/ \E h \in Handlers, cause \in ProviderErrors : ProcessGenerationFailed(h, cause)
  \/ \E h \in Handlers : ProcessUpdateComplete(h)
  \/ \E h \in Handlers : ProcessUpdateFailed(h)

SpecGenerate == Init /\ [][NextGenerate]_vars

\* ================================================================== claims
Terminal == {OrderStatus.COMPLETE, OrderStatus.FAILED}

\* the lifecycle graph of the specification
LifecycleEdges ==
  {<<"Created", "PaymentConfirmed">>, <<"Created", "Failed">>,
   <<"PaymentConfirmed", "Processing">>, <<"Processing", "Complete">>,
   <<"Processing", "Failed">>}

ProcessHandlers == {h \in Handlers : handlers[h].kind = "process"}
WebhookHandlers == {h \in Handlers : handlers[h].kind = "webhook"}

\* C1: once an order's status is complete or failed, no step changes its status.
C1_TerminalIsFinal ==
  [][\A id \in DOMAIN orders :
       orders[id].status \in Terminal => orders'[id].status = orders[id].status]_vars

\* C2: the verified checkout.session.completed events received for an order, counted
\* without repetition, bound its "received" notifications: a redelivered event adds none.
C2_OneReceivedPerEvent ==
  \A o \in OrderIds :
    emails[o]["received"] <= Cardinality({e \in history.delivered : e.orderId = o})

\* C3: a process request that starts after another process request for the same order
\* has ended writes nothing, sends nothing and calls generateContent zero times; a
\* process request that passed the guard and ended called generateContent exactly once.
C3_SecondProcessIsNoOp ==
  \A h \in ProcessHandlers :
    /\ handlers[h].afterDone =>
         /\ handlers[h].writes = 0
         /\ handlers[h].mails = 0
         /\ handlers[h].gens = 0
         /\ handlers[h].pc \in {"getOrder", "done"}
    /\ (handlers[h].pc = "done" /\ handlers[h].resp \in {200, 500}) => handlers[h].gens = 1

\* C3 witness: a second request, started after a first one that generated and completed
\* the order, was rejected.
C3_Witness ==
  \E h \in ProcessHandlers :
    /\ handlers[h].afterDone
    /\ handlers[h].pc = "done"
    /\ handlers[h].resp = 400
    /\ genCalls[handlers[h].orderId] = 1
    /\ emails[handlers[h].orderId]["in-progress"] = 1
    /\ orders[handlers[h].orderId].status = OrderStatus.COMPLETE
    /\ orders[handlers[h].orderId].content = "text"

\* C4: generateContent is called at most once for an order, however the process
\* requests for it interleave.
C4_AtMostOneGeneration == \A o \in OrderIds : genCalls[o] <= 1

\* C5: a process request that finds its order in a state other than PaymentConfirmed
\* writes nothing, sends nothing and does not call generateContent.
C5_NoProcessingWithoutPayment ==
  \A h \in ProcessHandlers :
    handlers[h].saw \notin {"none", "PaymentConfirmed"} =>
      handlers[h].writes = 0 /\ handlers[h].mails = 0 /\ handlers[h].gens = 0

\* C6: every stored order has content and apiCost both absent ("" and 0, as createOrder
\* stores them) or both present.
C6_ContentAndCostTogether ==
  \A id \in DOMAIN orders : (orders[id].content = "") <=> (orders[id].apiCost = 0)

\* C7: every change of an order's lifecycle state is one of the five edges.
C7_OnlyLifecycleEdges ==
  [][\A id \in DOMAIN orders :
       \/ LifecycleState(orders'[id]) = LifecycleState(orders[id])
       \/ <<LifecycleState(orders[id]), LifecycleState(orders'[id])>> \in LifecycleEdges]_vars

\* C8: a verified payment event whose order is not in Created writes nothing and
\* sends nothing.
C8_PaymentEventNoOpUnlessCreated ==
  \A h \in WebhookHandlers :
    handlers[h].saw \notin {"none", "Created"} =>
      handlers[h].writes = 0 /\ handlers[h].mails = 0

\* C9: when a verified payment_intent.payment_failed event for the payment intent of
\* an order in Created has been handled, the order is failed and a "payment-failed"
\* notification was attempted; and generateContent is never called for it afterwards.
C9_PaymentFailureFailsOrder ==
  /\ [](\A h \in WebhookHandlers :
          (/\ handlers[h].type = "payment_intent.payment_failed"
           /\ handlers[h].pc = "done"
           /\ handlers[h].saw = "Created") =>
            /\ orders[MetadataOrderId(handlers[h].paymentIntent)].status = OrderStatus.FAILED
            /\ emails[MetadataOrderId(handlers[h].paymentIntent)]["payment-failed"] >= 1)
  /\ [][\A o \in history.paymentFailed : genCalls'[o] = genCalls[o]]_vars

\* C10: a webhook request whose signature does not verify ends with status 400 before
\* any order lookup, having written nothing, sent nothing and dispatched nothing.
C10_BadSignatureRejected ==
  \A h \in WebhookHandlers :
    ~handlers[h].sigOK =>
      /\ handlers[h].pc = "done"
      /\ handlers[h].resp = 400
      /\ handlers[h].saw = "none"
      /\ handlers[h].writes = 0
      /\ handlers[h].mails = 0
      /\ handlers[h].fetches = 0

\* C10 witness: a request with a bad signature was rejected while an order with an open
\* checkout session was in the store.
C10_Witness ==
  \E h \in WebhookHandlers :
    /\ ~handlers[h].sigOK
    /\ handlers[h].resp = 400
    /\ \E p \in PaymentIntents : HasOrder(orders, piOrder[p])

\* C11: the order that createOrder stores has price = wordCount * the pricePerWord setting
\* in force at that moment, whatever the value of the setting (0 included), and is in
\* Created.
C11_PriceFromCurrentSetting ==
  [][orderIdCounter' # orderIdCounter =>
       /\ orders'[orderIdCounter].price =
            orders'[orderIdCounter].wordCount * settings.pricing.pricePerWord
       /\ LifecycleState(orders'[orderIdCounter]) = "Created"]_vars

\* C12: the step that follows a successful generation writes status complete, the
\* generated text and its cost to the order in one update, attempts the "completed"
\* notification and answers 200; an order processed once by a request that ended with
\* 200 is complete and has had exactly one "completed" notification.
C12_HappyPathCompletes ==
  /\ [][\A h \in Handlers :
          (/\ handlers[h].kind = "process"
           /\ handlers[h].pc = "updateComplete"
           /\ handlers'[h].pc = "done") =>
            /\ orders'[handlers[h].orderId].status = OrderStatus.COMPLETE
            /\ orders'[handlers[h].orderId].content = handlers[h].result.content
            /\ orders'[handlers[h].orderId].apiCost = handlers[h].result.cost
            /\ emails'[handlers[h].orderId]["completed"] =
                 emails[handlers[h].orderId]["completed"] + 1
            /\ handlers'[h].resp = 200]_vars
  /\ [](\A h \in ProcessHandlers :
          (/\ handlers[h].pc = "done"
           /\ handlers[h].resp = 200
           /\ genCalls[handlers[h].orderId] = 1
           /\ emails[handlers[h].orderId]["payment-failed"] = 0) =>
            /\ orders[handlers[h].orderId].status = OrderStatus.COMPLETE
            /\ emails[handlers[h].orderId]["completed"] = 1)

\* C12 witness: a paid order went through one process request that found it in
\* PaymentConfirmed; it is complete with the generated text and cost 5, after one
\* "received", one "in-progress" and one "completed" notification.
C12_Witness ==
  \E h \in ProcessHandlers :
    /\ handlers[h].pc = "done"
    /\ handlers[h].resp = 200
    /\ handlers[h].saw = "PaymentConfirmed"
    /\ genCalls[handlers[h].orderId] = 1
    /\ orders[handlers[h].orderId].stripePaymentIntentId # EmptyPI
    /\ orders[handlers[h].orderId].status = OrderStatus.COMPLETE
    /\ orders[handlers[h].orderId].content = "text"
    /\ orders[handlers[h].orderId].apiCost = 5
    /\ emails[handlers[h].orderId]["received"] = 1
    /\ emails[handlers[h].orderId]["in-progress"] = 1
    /\ emails[handlers[h].orderId]["completed"] = 1

\* C13: the step that follows a failed generation writes status failed, leaves content
\* and apiCost as they were, attempts the "failed" notification and answers 500 (the
\* failure is caught by the handler); an order processed once by a request that ended
\* with 500 is failed with content and apiCost absent.
C13_GenerationFailureFailsOrder ==
  /\ [][\A h \in Handlers :
          (/\ handlers[h].kind = "process"
           /\ handlers[h].pc = "updateFailed"
           /\ handlers'[h].pc = "done") =>
            /\ orders'[handlers[h].orderId].status = OrderStatus.FAILED
            /\ orders'[handlers[h].orderId].content = orders[handlers[h].orderId].content
            /\ orders'[handlers[h].orderId].apiCost = orders[handlers[h].orderId].apiCost
            /\ emails'[handlers[h].orderId]["failed"] =
                 emails[handlers[h].orderId]["failed"] + 1
            /\ handlers'[h].resp = 500]_vars
  /\ [](\A h \in ProcessHandlers :
          (/\ handlers[h].pc = "done"
           /\ handlers[h].resp = 500
           /\ genCalls[handlers[h].orderId] = 1) =>
            /\ orders[handlers[h].orderId].status = OrderStatus.FAILED
            /\ orders[handlers[h].orderId].content = ""
            /\ orders[handlers[h].orderId].apiCost = 0
            /\ emails[handlers[h].orderId]["failed"] = 1
            /\ emails[handlers[h].orderId]["completed"] = 0)

\* C13 witness: the generation for a paid order failed; the request ended with 500, the
\* order is failed without content or cost, and one "failed" notification was attempted.
C13_Witness ==
  \E h \in ProcessHandlers :
    /\ handlers[h].pc = "done"
    /\ handlers[h].resp = 500
    /\ handlers[h].saw = "PaymentConfirmed"
    /\ genCalls[handlers[h].orderId] = 1
    /\ orders[handlers[h].orderId].status = OrderStatus.FAILED
    /\ orders[handlers[h].orderId].content = ""
    /\ orders[handlers[h].orderId].apiCost = 0
    /\ emails[handlers[h].orderId]["in-progress"] = 1
    /\ emails[handlers[h].orderId]["failed"] = 1

\* C14: every webhook request whose signature verified ends with status 200, whatever
\* the kind of its event and whatever order it refers to.
C14_VerifiedEventAcknowledged ==
  \A h \in WebhookHandlers :
    (handlers[h].sigOK /\ handlers[h].pc = "done") => handlers[h].resp = 200

\* C15: the dispatch scheduled by a handled checkout.session.completed event is never
\* lost: while no process request for the order is under way or has ended, a request
\* for it is still waiting to be delivered.
C15_DispatchNeverLost ==
  \A o \in DOMAIN orders :
    (emails[o]["received"] >= 1 /\ fetchQ[o] = 0) =>
      \/ o \in history.procFinished
      \/ \E h \in ProcessHandlers : handlers[h].orderId = o

\* C16: an order in processing always has a process request under way that will still
\* write its outcome, also when a store update after the generation fails.
C16_ProcessingIsLeft ==
  \A id \in DOMAIN orders :
    orders[id].status = OrderStatus.PROCESSING =>
      \E h \in ProcessHandlers : handlers[h].orderId = id /\ handlers[h].pc # "done"

\* C17: no two orders hold the same non-empty stripePaymentIntentId, whatever verified
\* checkout.session.completed events arrive.
C17_PaymentReferenceUnique ==
  \A a, b \in DOMAIN orders :
    (a # b /\ orders[a].stripePaymentIntentId # EmptyPI) =>
      orders[a].stripePaymentIntentId # orders[b].stripePaymentIntentId

\* C18: a new order has no stripePaymentIntentId, and once an order's
\* stripePaymentIntentId is non-empty no step changes it.
C18_PaymentReferenceSetOnce ==
  [][/\ orderIdCounter' # orderIdCounter =>
          orders'[orderIdCounter].stripePaymentIntentId = EmptyPI
     /\ \A id \in DOMAIN orders :
          orders[id].stripePaymentIntentId # EmptyPI =>
            orders'[id].stripePaymentIntentId = orders[id].stripePaymentIntentId]_vars

\* C19: once an order has content, no step changes its content or its apiCost, however
\* the process requests for it interleave.
C19_ContentWrittenOnce ==
  [][\A id \in DOMAIN orders :
       orders[id].content # "" =>
         /\ orders'[id].content = orders[id].content
         /\ orders'[id].apiCost = orders[id].apiCost]_vars

\* C20: no step changes the price of a stored order; a change of the pricePerWord
\* setting in particular leaves every stored price as createOrder wrote it.
C20_PriceImmutable ==
  [][\A id \in DOMAIN orders : orders'[id].price = orders[id].price]_vars

\* C20 witness: an order of 100 words priced at 5 per word was processed to completion
\* and still costs 500 after pricePerWord was changed to 7.
C20_Witness ==
  \E id \in DOMAIN orders :
    /\ settings.pricing.pricePerWord = 7
    /\ orders[id].wordCount = 100
    /\ orders[id].price = 500
    /\ orders[id].status = OrderStatus.COMPLETE

\* C21: however a sendEmail call ends (skipped, transport error, sent), its promise
\* resolves, so nothing is rejected unhandled; the step in which a call settles changes
\* no order, no request and no dispatch; and an order processed once by a request that
\* ended with 200 is complete whatever became of its mails.
C21_MailFailuresHarmless ==
  /\ [](~history.unhandled)
  /\ [][history.mailLog' # history.mailLog =>
          /\ orders' = orders
          /\ handlers' = handlers
          /\ fetchQ' = fetchQ
          /\ genCalls' = genCalls]_vars
  /\ [](\A h \in ProcessHandlers :
          (/\ handlers[h].pc = "done"
           /\ handlers[h].resp = 200
           /\ genCalls[handlers[h].orderId] = 1
           /\ emails[handlers[h].orderId]["payment-failed"] = 0) =>
            orders[handlers[h].orderId].status = OrderStatus.COMPLETE)

\* C21 witness: the "received", "in-progress" and "completed" mails of an order all ended
\* in a transport error, and the order is paid for and complete with its text.
C21_Witness ==
  \E h \in ProcessHandlers :
    /\ handlers[h].pc = "done"
    /\ handlers[h].resp = 200
    /\ history.mailLog[handlers[h].orderId]["received"]["error"] = 1
    /\ history.mailLog[handlers[h].orderId]["in-progress"]["error"] = 1
    /\ history.mailLog[handlers[h].orderId]["completed"]["error"] = 1
    /\ orders[handlers[h].orderId].stripePaymentIntentId # EmptyPI
    /\ orders[handlers[h].orderId].status = OrderStatus.COMPLETE
    /\ orders[handlers[h].orderId].content = "text"

\* C22: a getOrder call on the storage object, for an id that a createOrder or
\* updateOrder call on it has returned, returns the order as last written, also when
\* the connection state has changed in between.
C22_ReadAfterWrite == ~history.staleRead

\* C23: a page lists its orders newest first; and when page 2 is fetched after page 1,
\* the orders that existed at the time of the first call appear on page 2 exactly as
\* they would had no order been created in between, so none of them is on both pages.
C23_PaginationStable ==
  /\ \A n \in DOMAIN history.pages :
       \A i, j \in DOMAIN history.pages[n].orders :
         i < j => history.pages[n].orders[i] > history.pages[n].orders[j]
  /\ Len(history.pages) = 2 =>
       /\ {history.pages[2].orders[i] : i \in DOMAIN history.pages[2].orders}
            \cap history.pages[1].existing
          = {id \in history.pages[1].existing :
               id <= Cardinality(history.pages[1].existing) - history.pages[1].limit}
       /\ \A i \in DOMAIN history.pages[1].orders, j \in DOMAIN history.pages[2].orders :
            history.pages[1].orders[i] # history.pages[2].orders[j]

\* C24: an id that a store hands out to createOrder is greater than every id of an
\* order in that store and than every id handed out and still being saved, also while
\* initDatabase of MongoStorage is still running; every order is stored under its own
\* id, and no step removes an order or changes its id.
C24_IdsUniqueAndMonotonic ==
  [][/\ \A id \in MongoIds :
          mongo.saving'[id] > mongo.saving[id] =>
            /\ \A other \in DOMAIN mongo.db : other < id
            /\ \A other \in MongoIds : mongo.saving[other] > 0 => other < id
     /\ \A id \in DOMAIN orders' \ DOMAIN orders : \A other \in DOMAIN orders : other < id
     /\ \A id \in DOMAIN mongo.db : id \in DOMAIN mongo.db' /\ mongo.db'[id].id = id
     /\ \A id \in DOMAIN orders : id \in DOMAIN orders' /\ orders'[id].id = id]_vars

\* C25: a settings update changes only the keys that its request supplied: the other
\* keys of the section keep their values and the other sections are unchanged.
C25_SettingsPartialUpdate ==
  [][/\ \A body \in Bodies(ApiKeyNames) :
          UpdateApiKeys(body) =>
            /\ \A k \in ApiKeyNames \ DOMAIN body : settings'.apiKeys[k] = settings.apiKeys[k]
            /\ \A k \in DOMAIN body : settings'.apiKeys[k] = body[k]
            /\ settings'.email = settings.email
            /\ settings'.pricing = settings.pricing
     /\ \A body \in Bodies(EmailNames) :
          UpdateEmail(body) =>
            /\ \A k \in EmailNames \ DOMAIN body : settings'.email[k] = settings.email[k]
            /\ \A k \in DOMAIN body : settings'.email[k] = body[k]
            /\ settings'.apiKeys = settings.apiKeys
            /\ settings'.pricing = settings.pricing
     /\ \A pricePerWord \in PricesPerWord :
          UpdatePricing(pricePerWord) =>
            /\ settings'.pricing.pricePerWord = pricePerWord
            /\ settings'.apiKeys = settings.apiKeys
            /\ settings'.email = settings.email]_vars

\* the sum of the prices of the orders with the given ids
RECURSIVE SumOfPrices(_)
SumOfPrices(ids) ==
  IF ids = {} THEN 0
  ELSE LET id == CHOOSE id \in ids : TRUE
       IN orders[id].price + SumOfPrices(ids \ {id})

C27_ValidationChangesNothing ==
  /\ [][\A topicOK \in BOOLEAN, wordCount \in BoundaryWordCounts, emailOK \in BOOLEAN :
          (/\ ~topicOK \/ wordCount < 100 \/ wordCount > 5000 \/ ~emailOK
           /\ CreateOrder(topicOK, wordCount, emailOK)) =>
            /\ orders' = orders
            /\ orderIdCounter' = orderIdCounter
            /\ settings' = settings
            /\ history'.rejected]_vars
  /\ [](\A id \in DOMAIN orders : orders[id].wordCount \in 100..5000)
  /\ [](orderIdCounter = Cardinality(DOMAIN orders) + 1)

\* C27 witness: a create request has been rejected, and the store holds an order of 100
\* words and an order of 5000 words with ids 1 and 2.
C27_Witness ==
  /\ history.rejected
  /\ orderIdCounter = 3
  /\ {orders[id].wordCount : id \in DOMAIN orders} = {100, 5000}

\* a message that quotes one of the provider's errors
QuotesProviderError(message) ==
  \E i \in DOMAIN message : message[i] \in ProviderErrors

\* C28: the "failed" mail and the stored order carry no provider error detail. Whatever
\* error the generation client raised, the data of the mail sent by the catch block is
\* the data that any other error would have produced, the stored order after the catch
\* block is the order before it with status failed, and neither ever quotes the error.
C28_NoProviderErrorDetail ==
  /\ [][\A h \in Handlers :
          ProcessUpdateFailed(h) =>
            LET id == handlers[h].orderId
            IN /\ \A cause \in ProviderErrors :
                    history'.failedData[id] =
                      FailedMailData(orders[id], GenerationError(cause))
               /\ orders' = [orders EXCEPT ![id].status = OrderStatus.FAILED]]_vars
  /\ [](\A o \in OrderIds :
          /\ ~QuotesProviderError(history.failedData[o].errorMessage)
          /\ o \in DOMAIN orders =>
               /\ orders[o].content \notin ProviderErrors
               /\ orders[o].status \notin ProviderErrors)

\* a generation failed with a provider error, the order is stored as failed and the mail
\* about it went out
C28_Witness ==
  \E o \in DOMAIN orders :
    /\ orders[o].status = OrderStatus.FAILED
    /\ history.failedData[o].orderId = o
    /\ emails[o]["failed"] = 1
    /\ \E h \in Handlers : handlers[h].orderId = o /\ handlers[h].resp = 500

\* C29: reading settings has no effect on stored settings. A call of the settings read
\* endpoint leaves the stored apiKeys and the stored email.smtpPassword as updateSettings
\* last wrote them.
C29_ReadLeavesSettings ==
  [][GetSettings =>
       /\ settings'.apiKeys = settings.apiKeys
       /\ settings'.email.smtpPassword = settings.email.smtpPassword]_vars

\* C30: per-order notification order. For every order the notification attempts come as
\* "received", then "in-progress", then one of "completed" or "failed": no "received"
\* attempt follows an "in-progress" attempt, no "in-progress" attempt comes without an
\* earlier "received" attempt, no closing attempt comes before "in-progress", and the
\* order gets at most one closing attempt.
C30_NotificationOrder ==
  [][\A o \in OrderIds :
       /\ emails'[o]["received"] > emails[o]["received"] => emails[o]["in-progress"] = 0
       /\ emails'[o]["in-progress"] > emails[o]["in-progress"] => emails[o]["received"] > 0
       /\ emails'[o]["completed"] + emails'[o]["failed"]
            > emails[o]["completed"] + emails[o]["failed"] =>
               /\ emails[o]["in-progress"] > 0
               /\ emails[o]["completed"] + emails[o]["failed"] = 0]_vars

====
